---- MODULE Spec2Model ----
(***************************************************************************)
(* Model of the image load wrapper of openlayers-master/src/ol/Image.js:   *)
(* one ImageWrapper, the raster handles it may own, the listeners it has   *)
(* registered on them, and the load function it was constructed with.      *)
(***************************************************************************)
EXTENDS Integers, Sequences, FiniteSets, TLC

\* ------------------------------------------------------------------ bounds
\* number of top-level calls (load, setImage, unsolicited signals) explored
MaxOps == 4
\* number of distinct raster handles (handle 1 is the wrapper's own Image)
NumHandles == 2
\* number of top-level calls explored among collaborators that re-enter
MaxReentrantOps == 3
\* number of load() calls the observer makes from within "changed"
\* notifications during one top-level call
MaxReentry == 2

\* number of ngOnChanges calls on the StyleIconDirective
MaxChanges == 2

Handles == 1..NumHandles

\* pixel heights a raster handle may report (0: nothing decoded, or a raster
\* without intrinsic size)
PixelHeights == {0, 25, 50}

\* extents [minX, minY, maxX, maxY] the wrapper may be constructed with
Extents == {<<0, 0, 10, 100>>, <<5, -20, 15, 40>>}

\* ------------------------------------------------------- ImageState values
IDLE == "IDLE"
LOADING == "LOADING"
LOADED == "LOADED"
ERROR == "ERROR"

ImageState == {IDLE, LOADING, LOADED, ERROR}

\* ---------------------------------------------------- EventType values
EventTypeERROR == "error"
EventTypeLOAD == "load"

\* imageListenerKeys_ = null (the code never stores an empty array, so the
\* empty sequence is free to stand for null)
NULL == <<>>

\* ------------------------------------------------------------------ numbers
\* JavaScript numbers as exact fractions, with the two non-finite results a
\* division can produce; UNDEFINED is the absent resolution.
UNDEFINED == [kind |-> "undefined", num |-> 0, den |-> 0]
Infinity == [kind |-> "Infinity", num |-> 0, den |-> 0]
NaN == [kind |-> "NaN", num |-> 0, den |-> 0]

RECURSIVE GCD(_, _)
GCD(a, b) == IF b = 0 THEN a ELSE GCD(b, a % b)

Number(n, d) == [kind |-> "number", num |-> n \div GCD(n, d), den |-> d \div GCD(n, d)]

\* a / b for a >= 0, b >= 0
Divide(a, b) ==
    IF b = 0
    THEN IF a = 0 THEN NaN ELSE Infinity
    ELSE Number(a, b)

\* resolutions the constructor may be given
Resolutions == {UNDEFINED, Number(1, 1)}

\* ol/extent.js getHeight: extent[3] - extent[1] (0-based indices)
getHeight(ext) == ext[4] - ext[2]

\* ------------------------------------------------------------------- state
VARIABLES
    state,               \* this.state
    image_,              \* this.image_ : the raster handle currently owned
    imageListenerKeys_,  \* this.imageListenerKeys_ : NULL or <<key, key>>
    resolution,          \* this.resolution (ImageBase)
    extent,              \* this.extent (ImageBase)
    listeners,           \* listeners registered on the raster handles
    height,              \* height[h] : pixel height of raster handle h
    pending,             \* handles on which the load function started a fetch
    log,                 \* what the last top-level call did, in order
    nOps,                \* number of top-level calls so far
    nChanged,            \* number of "changed" notifications so far
    nLoadFn              \* number of load function invocations so far

\* the StyleComponent of components/style.components_old.ts, its content
\* child and its host feature
VARIABLES
    contentChild,        \* whether an aol-style-icon child is present
    iconStyleDirective,  \* the @Input fields of the StyleIconDirective
    onChangedObservers,  \* open subscriptions to the directive's onChanged
    childSubscription,   \* this.childSubscription$
    hostStyle,           \* the style last given to this._host_.setStyle
    nSetStyle,           \* number of this._host_.setStyle calls so far
    nSubscribe,          \* number of onChanged.subscribe calls so far
    nUnsubscribe,        \* number of unsubscribe calls so far
    nChanges,            \* number of ngOnChanges calls so far
    phase,               \* lifecycle position of the StyleComponent
    thrown               \* lifecycle hooks that ended in a TypeError

styleVars == <<contentChild, iconStyleDirective, onChangedObservers,
               childSubscription, hostStyle, nSetStyle, nSubscribe,
               nUnsubscribe, nChanges, phase, thrown>>

vars == <<state, image_, imageListenerKeys_, resolution, extent, listeners,
          height, pending, log, nOps, nChanged, nLoadFn>>

\* The wrapper and its surroundings as one record, so that the methods can be
\* written as functions from record to record and composed as the code calls
\* them.
World ==
    [state |-> state, image_ |-> image_,
     imageListenerKeys_ |-> imageListenerKeys_, resolution |-> resolution,
     extent |-> extent, listeners |-> listeners, height |-> height,
     pending |-> pending, log |-> log, nChanged |-> nChanged,
     nLoadFn |-> nLoadFn,
     observer |-> "passive", loadFunction |-> "async", fuel |-> 0]

\* What the collaborators do during one top-level call.  observer: the
\* listener of "changed" only reads ("passive") or calls load() from within
\* the notification ("loads").  loadFunction: the load function starts a
\* fetch that is answered later ("async") or makes the handle fire its
\* signal before it returns ("fireLoad", "fireError").
Environments ==
    [observer : {"passive", "loads"},
     loadFunction : {"async", "fireLoad", "fireError"}]

\* the wrapper among collaborators that behave as env says; the observer
\* re-enters at most MaxReentry times in one top-level call
Among(env) ==
    [World EXCEPT !.observer = env.observer,
                  !.loadFunction = env.loadFunction,
                  !.fuel = MaxReentry]

\* Below, CHOOSE r \in {e(x) : x \in {v}} : TRUE is e(v) with v evaluated
\* once: the value of an intermediate state is computed once, however often
\* the statements after it read it.

\* one entry of the log: the event, the raster handle it was given (0 when it
\* has none), and what an observer would read at that moment
Entry(s, ev, arg) ==
    [ev |-> ev, arg |-> arg, state |-> s.state,
     listening |-> s.imageListenerKeys_ # NULL,
     registered |-> Cardinality(s.listeners)]

Note(s, ev) ==
    CHOOSE r \in
        {[x EXCEPT !.log = Append(@, Entry(x, ev, 0))]
         : x \in {s}} : TRUE

\* a top-level call starts a fresh log
Begin(s, ev, arg) ==
    CHOOSE r \in
        {[x EXCEPT !.log = <<Entry(x, ev, arg)>>]
         : x \in {s}} : TRUE

\* ------------------------------------------------------------ collaborators
\* ol/events.js: a key names the target and the event type it listens to
Key(target, type) == [target |-> target, type |-> type]

\* listenOnce(target, type, listener, this)
listenOnce(s, target, type) ==
    [s EXCEPT !.listeners = @ \cup {Key(target, type)}]

\* unlistenByKey(key): harmless when the key is no longer registered
unlistenByKey(s, key) ==
    [s EXCEPT !.listeners = @ \ {key}]

RECURSIVE load(_), dispatchEvent(_, _, _)

\* ImageBase.prototype.changed: dispatch a "change" event to the observers,
\* synchronously; an observer that loads calls load() before changed() returns
changed(s) ==
    CHOOSE r \in
        {IF x.observer = "loads" /\ x.fuel > 0
         THEN load([x EXCEPT !.log = Append(Append(@, Entry(x, "changed", 0)),
                                            Entry(x, "observerLoad", 0)),
                             !.nChanged = @ + 1,
                             !.fuel = @ - 1])
         ELSE [x EXCEPT !.log = Append(@, Entry(x, "changed", 0)),
                        !.nChanged = @ + 1]
         : x \in {s}} : TRUE

\* this.imageLoadFunction_(this, this.src_): starts a fetch on the handle the
\* wrapper owns at that moment, and the handle signals the outcome later; or
\* makes that handle fire its signal at once
imageLoadFunction_(s) ==
    CHOOSE r \in
        {IF x.loadFunction = "async"
         THEN [x EXCEPT !.log = Append(@, Entry(x, "imageLoadFunction", 0)),
                        !.nLoadFn = @ + 1,
                        !.pending = @ \cup {x.image_}]
         ELSE dispatchEvent(
                  [x EXCEPT !.log = Append(Append(@,
                                        Entry(x, "imageLoadFunction", 0)),
                                        Entry(x, x.loadFunction, x.image_)),
                            !.nLoadFn = @ + 1],
                  x.image_,
                  IF x.loadFunction = "fireLoad"
                  THEN EventTypeLOAD ELSE EventTypeERROR)
         : x \in {s}} : TRUE

\* ----------------------------------------------------------------- methods
\* ImageWrapper.prototype.unlistenImage_ that clears the keys without
\* unlistening them
unlistenImage_KeepsListeners(s) ==
    Note([s EXCEPT !.imageListenerKeys_ = NULL], "unlisten")

\* ImageWrapper.prototype.unlistenImage_ (called with non-null keys)
unlistenImage_(s) ==
    CHOOSE r \in
        {Note([unlistenByKey(unlistenByKey(x, x.imageListenerKeys_[1]),
                            x.imageListenerKeys_[2])
                 EXCEPT !.imageListenerKeys_ = NULL],
             "unlisten")
         : x \in {s}} : TRUE

\* the assignment to imageListenerKeys_ in load(), with both listeners
\* registered for EventType.LOAD
RegisterListeners_BothOnLoad(s) ==
    CHOOSE r \in
        {Note([listenOnce(listenOnce(x, x.image_, EventTypeLOAD),
                         x.image_, EventTypeLOAD)
                 EXCEPT !.imageListenerKeys_ =
                     <<Key(x.image_, EventTypeLOAD),
                       Key(x.image_, EventTypeLOAD)>>],
             "listen")
         : x \in {s}} : TRUE

\* the assignment to imageListenerKeys_ in load(): one listener for
\* EventType.ERROR and one for EventType.LOAD, on this.image_
RegisterListeners(s) ==
    CHOOSE r \in
        {Note([listenOnce(listenOnce(x, x.image_, EventTypeERROR),
                         x.image_, EventTypeLOAD)
                 EXCEPT !.imageListenerKeys_ =
                     <<Key(x.image_, EventTypeERROR),
                       Key(x.image_, EventTypeLOAD)>>],
             "listen")
         : x \in {s}} : TRUE

\* the statements of load() inside its guard with the load function invoked
\* before the listeners are registered
StartLoading_LoadFunctionFirst(s) ==
    RegisterListeners(imageLoadFunction_(changed([s EXCEPT !.state = LOADING])))

\* the statements of load() inside its guard, in their order: state, changed(),
\* listeners, load function
StartLoading(s) ==
    imageLoadFunction_(RegisterListeners(changed([s EXCEPT !.state = LOADING])))

\* ImageWrapper.prototype.load without its state guard
load_NoGuard(s) == StartLoading(s)

\* ImageWrapper.prototype.load with a guard that only excludes LOADING
load_ReloadsLoaded(s) ==
    CHOOSE r \in
        {IF x.state # LOADING THEN StartLoading(x) ELSE x
         : x \in {s}} : TRUE

\* ImageWrapper.prototype.load with a guard that only admits IDLE
load_NoRetry(s) ==
    CHOOSE r \in
        {IF x.state = IDLE THEN StartLoading(x) ELSE x
         : x \in {s}} : TRUE

\* ImageWrapper.prototype.load
load(s) ==
    CHOOSE r \in
        {IF x.state = IDLE \/ x.state = ERROR
         THEN StartLoading(x)
         ELSE x
         : x \in {s}} : TRUE

\* ImageWrapper.prototype.handleImageError_ with the state reset to IDLE
handleImageError_ResetsToIdle(s) ==
    CHOOSE r \in
        {IF x.imageListenerKeys_ = NULL
         THEN Note(x, "TypeError")
         ELSE changed(unlistenImage_(x))
         : x \in {[Note(s, "handleImageError") EXCEPT !.state = IDLE]}} : TRUE

\* ImageWrapper.prototype.handleImageError_ followed by an automatic retry
handleImageError_AutoRetry(s) ==
    CHOOSE r \in
        {IF x.imageListenerKeys_ = NULL
         THEN Note(x, "TypeError")
         ELSE load(changed(unlistenImage_(x)))
         : x \in {[Note(s, "handleImageError") EXCEPT !.state = ERROR]}} : TRUE

\* ImageWrapper.prototype.handleImageError_ without the call of changed()
handleImageError_NoChanged(s) ==
    CHOOSE r \in
        {IF x.imageListenerKeys_ = NULL
          THEN Note(x, "TypeError")
          ELSE unlistenImage_(x)
         : x \in {[Note(s, "handleImageError") EXCEPT !.state = ERROR]}} : TRUE

\* ImageWrapper.prototype.handleImageError_: state, unlistenImage_(),
\* changed(); forEach on null keys throws a TypeError in unlistenImage_ and the
\* handler is abandoned there
handleImageError_(s) ==
    CHOOSE r \in
        {IF x.imageListenerKeys_ = NULL
         THEN Note(x, "TypeError")
         ELSE changed(unlistenImage_(x))
         : x \in {[Note(s, "handleImageError") EXCEPT !.state = ERROR]}} : TRUE

\* the first statement of handleImageLoad_ without its test for undefined
InferResolution_Always(s) ==
    CHOOSE r \in
        {Note([x EXCEPT !.resolution =
                 Divide(getHeight(x.extent), x.height[x.image_])],
             "inferResolution")
         : x \in {s}} : TRUE

\* the first statement of handleImageLoad_: an undefined resolution becomes
\* getHeight(this.extent) / this.image_.height
InferResolution(s) ==
    CHOOSE r \in
        {IF x.resolution = UNDEFINED
         THEN Note([x EXCEPT !.resolution =
                      Divide(getHeight(x.extent), x.height[x.image_])],
                  "inferResolution")
         ELSE x
         : x \in {s}} : TRUE

\* ImageWrapper.prototype.handleImageLoad_ with changed() called before
\* unlistenImage_()
handleImageLoad_ChangedFirst(s) ==
    CHOOSE r \in
        {IF x.imageListenerKeys_ = NULL
         THEN Note(changed(x), "TypeError")
         ELSE unlistenImage_(changed(x))
         : x \in {[InferResolution(Note(s, "handleImageLoad")) EXCEPT !.state = LOADED]}} : TRUE

\* ImageWrapper.prototype.handleImageLoad_ without the call of
\* unlistenImage_()
handleImageLoad_NoUnlisten(s) ==
    changed([InferResolution(Note(s, "handleImageLoad")) EXCEPT !.state = LOADED])

\* ImageWrapper.prototype.handleImageLoad_: resolution, state,
\* unlistenImage_(), changed()
handleImageLoad_(s) ==
    CHOOSE r \in
        {IF x.imageListenerKeys_ = NULL
         THEN Note(x, "TypeError")
         ELSE changed(unlistenImage_(x))
         : x \in {[InferResolution(Note(s, "handleImageLoad")) EXCEPT !.state = LOADED]}} : TRUE

\* ImageWrapper.prototype.setImage that also returns the wrapper to IDLE
setImage_ResetsState(s, image) == [s EXCEPT !.image_ = image, !.state = IDLE]

\* ImageWrapper.prototype.setImage
setImage(s, image) == [s EXCEPT !.image_ = image]

\* ImageWrapper.prototype.getImage
getImage(s) == s.image_

\* A raster handle dispatches an event of the given type: a listener made by
\* listenOnce removes itself and then calls the wrapper's handler.
dispatchEvent(s, target, type) ==
    CHOOSE r \in
        {IF Key(target, type) \in x.listeners
         THEN IF type = EventTypeERROR
              THEN handleImageError_(unlistenByKey(x, Key(target, type)))
              ELSE handleImageLoad_(unlistenByKey(x, Key(target, type)))
         ELSE x
         : x \in {s}} : TRUE

\* ------------------------------------------------------------------ actions
\* the fields of the wrapper and of its surroundings after a call
Commit(s) ==
    /\ state' = s.state
    /\ image_' = s.image_
    /\ imageListenerKeys_' = s.imageListenerKeys_
    /\ resolution' = s.resolution
    /\ extent' = s.extent
    /\ listeners' = s.listeners
    /\ height' = s.height
    /\ pending' = s.pending
    /\ log' = s.log
    /\ nChanged' = s.nChanged
    /\ nLoadFn' = s.nLoadFn
    /\ nOps' = nOps + 1
    /\ UNCHANGED styleVars

\* ------------------------------------------------- style binding bridge
\* the @Input properties of StyleIconDirective
IconInputs ==
    {"anchor", "anchorXUnits", "anchorYUnits", "anchorOrigin", "color",
     "crossOrigin", "img", "offset", "offsetOrigin", "opacity", "scale",
     "snapToPixel", "rotateWithView", "rotation", "size", "imgSize", "src"}

\* the values a bound property takes: not bound, or one of two values
InputValues == {"undefined", "a", "b"}

\* a feature that was given no style yet
NoStyle == [image |-> [f \in IconInputs |-> "none"]]

\* StyleComponent.update: the argument of this._host_.setStyle
update(d) ==
    [image |->
        [anchor |-> d.anchor,
         anchorOrigin |-> d.anchorOrigin,
         anchorXUnits |-> d.anchorXUnits,
         anchorYUnits |-> d.anchorYUnits,
         color |-> d.color,
         crossOrigin |-> d.crossOrigin,
         img |-> d.img,
         offset |-> d.offset,
         offsetOrigin |-> d.offsetOrigin,
         opacity |-> d.opacity,
         scale |-> d.scale,
         snapToPixel |-> d.snapToPixel,
         rotateWithView |-> d.rotateWithView,
         rotation |-> d.rotation,
         size |-> d.size,
         imgSize |-> d.imgSize,
         src |-> d.src]]

\* a StyleComponent that has been constructed, inside some host feature
StyleInit ==
    /\ contentChild \in BOOLEAN
    /\ iconStyleDirective = [f \in IconInputs |-> "undefined"]
    /\ onChangedObservers = 0
    /\ childSubscription = "undefined"
    /\ hostStyle = NoStyle
    /\ nSetStyle = 0
    /\ nSubscribe = 0
    /\ nUnsubscribe = 0
    /\ nChanges = 0
    /\ phase = "constructed"
    /\ thrown = {}

\* the StyleComponent while only the image wrapper is exercised
StyleAtRest == StyleInit /\ contentChild

\* StyleIconDirective.ngOnChanges after Angular has set one bound property:
\* onChanged.emit calls update() for every open subscription
NgOnChanges ==
    /\ contentChild
    /\ nChanges < MaxChanges
    /\ \E f \in IconInputs, v \in InputValues \ {"undefined"} :
          /\ v # iconStyleDirective[f]
          /\ iconStyleDirective' = [iconStyleDirective EXCEPT ![f] = v]
    /\ nChanges' = nChanges + 1
    /\ IF onChangedObservers > 0
       THEN /\ hostStyle' = update(iconStyleDirective')
            /\ nSetStyle' = nSetStyle + onChangedObservers
       ELSE UNCHANGED <<hostStyle, nSetStyle>>
    /\ UNCHANGED <<contentChild, onChangedObservers, childSubscription,
                   nSubscribe, nUnsubscribe, phase, thrown>>
    /\ UNCHANGED vars

\* StyleComponent.ngAfterContentInit, called by Angular at most once and not
\* after ngOnDestroy: update(), then subscribe; without a content child
\* update() reads a property of undefined and throws before anything is done
NgAfterContentInit ==
    /\ phase = "constructed"
    /\ phase' = "initialized"
    /\ IF contentChild
       THEN /\ hostStyle' = update(iconStyleDirective)
            /\ nSetStyle' = nSetStyle + 1
            /\ onChangedObservers' = onChangedObservers + 1
            /\ childSubscription' = "open"
            /\ nSubscribe' = nSubscribe + 1
            /\ UNCHANGED thrown
       ELSE /\ thrown' = thrown \cup {"ngAfterContentInit"}
            /\ UNCHANGED <<hostStyle, nSetStyle, onChangedObservers,
                           childSubscription, nSubscribe>>
    /\ UNCHANGED <<contentChild, iconStyleDirective, nUnsubscribe, nChanges>>
    /\ UNCHANGED vars

\* StyleComponent.ngOnDestroy without the call of unsubscribe()
NgOnDestroy_NoUnsubscribe ==
    /\ phase \in {"constructed", "initialized"}
    /\ phase' = "destroyed"
    /\ IF childSubscription = "undefined"
       THEN thrown' = thrown \cup {"ngOnDestroy"}
       ELSE UNCHANGED thrown
    /\ UNCHANGED <<contentChild, iconStyleDirective, hostStyle, nSetStyle,
                   nSubscribe, nChanges, onChangedObservers,
                   childSubscription, nUnsubscribe>>
    /\ UNCHANGED vars

\* StyleComponent.ngOnDestroy, called by Angular at most once, also for a
\* component destroyed before its content was initialised:
\* this.childSubscription$.unsubscribe() throws when childSubscription$ is
\* undefined
NgOnDestroy ==
    /\ phase \in {"constructed", "initialized"}
    /\ phase' = "destroyed"
    /\ IF childSubscription = "undefined"
       THEN /\ thrown' = thrown \cup {"ngOnDestroy"}
            /\ UNCHANGED <<onChangedObservers, childSubscription,
                           nUnsubscribe>>
       ELSE /\ onChangedObservers' =
                  IF childSubscription = "open"
                  THEN onChangedObservers - 1 ELSE onChangedObservers
            /\ childSubscription' = "closed"
            /\ nUnsubscribe' = nUnsubscribe + 1
            /\ UNCHANGED thrown
    /\ UNCHANGED <<contentChild, iconStyleDirective, hostStyle, nSetStyle,
                   nSubscribe, nChanges>>
    /\ UNCHANGED vars

StyleNext == NgOnChanges \/ NgAfterContentInit \/ NgOnDestroy

\* new ImageWrapper(extent, resolution, pixelRatio, src, crossOrigin, fn)
Init ==
    /\ state = IDLE
    /\ image_ = 1
    /\ imageListenerKeys_ = NULL
    /\ resolution \in Resolutions
    /\ extent \in Extents
    /\ listeners = {}
    /\ height \in {f \in [Handles -> PixelHeights] : f[1] = 0}
    /\ pending = {}
    /\ log = <<>>
    /\ nOps = 0
    /\ nChanged = 0
    /\ nLoadFn = 0

\* a caller calls load()
Load ==
    /\ nOps < MaxOps
    /\ \E s \in {load(Begin(World, "load", 0))} : Commit(s)

\* a caller calls setImage(image)
SetImage ==
    /\ nOps < MaxOps
    /\ \E image \in Handles :
          \E s \in {setImage(Begin(World, "setImage", image), image)} :
              Commit(s)

\* raster handle target finishes decoding with some pixel height and fires
\* "load"; a signal the load function asked for is always allowed to arrive
RasterLoadOn(target) ==
    \E h \in PixelHeights \ {0} :
        /\ nOps < MaxOps \/ target \in pending
        /\ \E s \in {dispatchEvent(
                        [Begin(World, "rasterLoad", target)
                            EXCEPT !.height[target] = h,
                                   !.pending = @ \ {target}],
                        target, EventTypeLOAD)} : Commit(s)

\* raster handle target fires "error"
RasterErrorOn(target) ==
    /\ nOps < MaxOps \/ target \in pending
    /\ \E s \in {dispatchEvent(
                    [Begin(World, "rasterError", target)
                        EXCEPT !.pending = @ \ {target}],
                    target, EventTypeERROR)} : Commit(s)

RasterLoad == \E target \in Handles : RasterLoadOn(target)

RasterError == \E target \in Handles : RasterErrorOn(target)

Next == Load \/ SetImage \/ RasterLoad \/ RasterError

\* a constructed wrapper, next to a StyleComponent that is left alone
WrapperInit == Init /\ StyleAtRest

Spec == WrapperInit /\ [][Next]_vars

\* the image wrapper while only the StyleComponent is exercised
WrapperAtRest ==
    Init /\ resolution = UNDEFINED /\ extent = <<0, 0, 10, 100>>
         /\ height = [h \in Handles |-> 0]

\* a constructed StyleComponent, next to a wrapper that is left alone
BridgeInit == StyleInit /\ WrapperAtRest

StyleSpec == BridgeInit /\ [][StyleNext]_styleVars

\* load() called among collaborators that may re-enter
ReentrantLoad ==
    /\ nOps < MaxReentrantOps
    /\ \E env \in Environments :
          \E s \in {load(Begin(Among(env), "load", 0))} : Commit(s)

\* a raster handle fires "load" among collaborators that may re-enter
ReentrantRasterLoad ==
    \E target \in Handles, h \in PixelHeights \ {0}, env \in Environments :
        /\ nOps < MaxReentrantOps
        /\ \E s \in {dispatchEvent(
                        [Begin(Among(env), "rasterLoad", target)
                            EXCEPT !.height[target] = h,
                                   !.pending = @ \ {target}],
                        target, EventTypeLOAD)} : Commit(s)

\* a raster handle fires "error" among collaborators that may re-enter
ReentrantRasterError ==
    \E target \in Handles, env \in Environments :
        /\ nOps < MaxReentrantOps
        /\ \E s \in {dispatchEvent(
                        [Begin(Among(env), "rasterError", target)
                            EXCEPT !.pending = @ \ {target}],
                        target, EventTypeERROR)} : Commit(s)

\* setImage(image) called between calls that may re-enter
ReentrantSetImage == nOps < MaxReentrantOps /\ SetImage

ReentrantNext ==
    \/ ReentrantLoad
    \/ ReentrantSetImage
    \/ ReentrantRasterLoad
    \/ ReentrantRasterError

\* the wrapper with observers that call load() from within "changed" and
\* load functions that fire the signal synchronously
ReentrantSpec == WrapperInit /\ [][ReentrantNext]_vars

\* the signal that answers a fetch the load function started on a handle
PendingSignal(target) ==
    /\ target \in pending
    /\ (RasterLoadOn(target) \/ RasterErrorOn(target))

\* the load function keeps its contract: every fetch it starts makes the
\* handle fire a success or a failure signal eventually
FairSpec == Spec /\ \A target \in Handles : WF_vars(PendingSignal(target))

\* --------------------------------------------------------------- properties
\* the step is a top-level call of the given kind
Called(op) == nOps' = nOps + 1 /\ log'[1].ev = op

\* how often an event occurs in a log
Count(l, ev) == Cardinality({i \in DOMAIN l : l[i].ev = ev})

\* the last top-level call was of the given kind
LastCall(op) == log # <<>> /\ log[1].ev = op

\* C1: the load function is invoked exactly once by every step that takes the
\* state from Idle or Error to Loading and by no other step; a load() made
\* while Loading or Loaded does not invoke it.
C1_LoadFunctionOncePerEntry ==
    [][/\ nLoadFn' = nLoadFn +
              (IF state \in {IDLE, ERROR} /\ state' = LOADING THEN 1 ELSE 0)
       /\ (Called("load") /\ state \in {LOADING, LOADED}) => nLoadFn' = nLoadFn
      ]_vars

\* two load() calls in a row: still Loading, load function invoked once
C1_Witness ==
    /\ nOps = 2
    /\ LastCall("load")
    /\ log[1].state = LOADING
    /\ state = LOADING
    /\ nLoadFn = 1

\* C2: load() called while Loading or Loaded changes neither the state, the
\* raster handle, the resolution nor the listeners, emits no "changed" and
\* does not invoke the load function.
C2_LoadNoOpWhenLoadingOrLoaded ==
    [][(Called("load") /\ state \in {LOADING, LOADED}) =>
          UNCHANGED <<state, image_, resolution, imageListenerKeys_, listeners,
                      nChanged, nLoadFn>>
      ]_vars

\* a load() made while Loaded
C2_Witness ==
    /\ LastCall("load")
    /\ log[1].state = LOADED
    /\ state = LOADED

\* C3: a completion handler that ran on a success signal leaves the state
\* Loaded, one that ran on a failure signal leaves it Error, each emits one
\* "changed", and the observer of that "changed" finds the listener keys
\* cleared and no listener registered, the deregistration having happened
\* earlier in the same handler.
C3_UnlistenBeforeChanged ==
    /\ Count(log, "handleImageLoad") > 0 =>
          LastCall("rasterLoad") /\ state = LOADED /\ Count(log, "changed") = 1
    /\ Count(log, "handleImageError") > 0 =>
          LastCall("rasterError") /\ state = ERROR /\ Count(log, "changed") = 1
    /\ \A i \in DOMAIN log :
          (log[i].ev = "changed" /\ log[i].state \in {LOADED, ERROR}) =>
              /\ ~log[i].listening
              /\ log[i].registered = 0
              /\ \E j \in 1..(i - 1) : log[j].ev = "unlisten"

\* a success completion whose "changed" was observed
C3_Witness ==
    /\ LastCall("rasterLoad")
    /\ state = LOADED
    /\ \E i \in DOMAIN log : log[i].ev = "changed" /\ log[i].state = LOADED

\* C4: the wrapper starts Idle and the state only ever changes from Idle or
\* Error to Loading in a load() call, from Loading to Loaded in the success
\* handler, and from Loading to Error in the failure handler.
C4_OnlyLifecycleTransitions ==
    /\ state = IDLE
    /\ [][state' # state =>
            \/ /\ state \in {IDLE, ERROR}
               /\ state' = LOADING
               /\ Called("load")
            \/ /\ state = LOADING
               /\ state' = LOADED
               /\ Called("rasterLoad")
               /\ Count(log', "handleImageLoad") = 1
            \/ /\ state = LOADING
               /\ state' = ERROR
               /\ Called("rasterError")
               /\ Count(log', "handleImageError") = 1
         ]_vars

\* a retry: load() called in Error has entered Loading
C4_Witness ==
    /\ LastCall("load")
    /\ log[1].state = ERROR
    /\ state = LOADING

\* a completion handler ran in the given log
HandlerRan(l) == Count(l, "handleImageLoad") + Count(l, "handleImageError") > 0

\* the step is a signal of a raster handle
Signalled == Called("rasterLoad") \/ Called("rasterError")

\* C5 as stated: from Loaded as well as from Error, a load() call starts a
\* new Loading episode.
C5_LoadedAndErrorReenterable ==
    [][(Called("load") /\ state \in {LOADED, ERROR}) => state' = LOADING]_vars

\* C5: from Error a load() call starts a new Loading episode (listeners
\* registered, load function invoked); Loaded is terminal: once Loaded, the
\* state stays Loaded under every operation.
C5_ErrorReenterableLoadedTerminal ==
    [][/\ (Called("load") /\ state = ERROR) =>
              /\ state' = LOADING
              /\ imageListenerKeys_' # NULL
              /\ nLoadFn' = nLoadFn + 1
       /\ state = LOADED => state' = LOADED
      ]_vars

\* a load() made while Loaded, after which the state is still Loaded and
\* nothing else was done
C5_Witness ==
    /\ LastCall("load")
    /\ Len(log) = 1
    /\ log[1].state = LOADED
    /\ state = LOADED
    /\ nChanged = 2
    /\ nLoadFn = 1

\* C6: the failure handler only sets the state to Error, deregisters and
\* emits one "changed": it neither invokes the load function nor registers
\* listeners, and no call raises; from Error a load() call re-enters Loading,
\* and a success signal of the handle listened to then reaches Loaded.
C6_FailureCapturedAndRecoverable ==
    /\ [](Count(log, "handleImageError") > 0 =>
            /\ state = ERROR
            /\ Count(log, "changed") = 1
            /\ Count(log, "imageLoadFunction") = 0
            /\ Count(log, "listen") = 0
            /\ imageListenerKeys_ = NULL
            /\ listeners = {})
    /\ [](Count(log, "TypeError") = 0)
    /\ [][/\ (Called("load") /\ state = ERROR) => state' = LOADING
          /\ (/\ Called("rasterLoad")
              /\ state = LOADING
              /\ log'[1].arg = imageListenerKeys_[2].target) => state' = LOADED
         ]_vars

\* failure, retry, success: Loaded after two load function invocations
C6_Witness ==
    /\ LastCall("rasterLoad")
    /\ state = LOADED
    /\ nLoadFn = 2
    /\ nChanged = 4

\* C7: a resolution that is set never changes; an unset resolution changes
\* only in the success handler, which sets it to the extent height divided by
\* the pixel height of the raster handle (100 / 50 = 2); every first success
\* sets it.
C7_ResolutionInferredOnce ==
    [][/\ resolution # UNDEFINED => resolution' = resolution
       /\ resolution' # resolution =>
              /\ Called("rasterLoad")
              /\ Count(log', "handleImageLoad") = 1
              /\ state' = LOADED
       /\ (resolution = UNDEFINED /\ state # LOADED /\ state' = LOADED) =>
              /\ resolution' # UNDEFINED
              /\ (height'[image_] # 0 =>
                    /\ resolution'.kind = "number"
                    /\ resolution'.num * height'[image_] =
                          resolution'.den * getHeight(extent))
              /\ (height'[image_] = 0 => resolution'.kind = "Infinity")
              /\ ((getHeight(extent) = 100 /\ height'[image_] = 50) =>
                    resolution' = [kind |-> "number", num |-> 2, den |-> 1])
      ]_vars

\* extent height 100, pixel height 50: Loaded with inferred resolution 2
C7_Witness ==
    /\ LastCall("rasterLoad")
    /\ Count(log, "inferResolution") = 1
    /\ state = LOADED
    /\ getHeight(extent) = 100
    /\ height[image_] = 50
    /\ resolution = [kind |-> "number", num |-> 2, den |-> 1]

\* C8: after setImage(handle), getImage() returns that handle, and the state,
\* the resolution, the listener keys, the registered listeners, the number of
\* "changed" notifications and of load function invocations are as before.
C8_SetImageOnlySetsHandle ==
    [][Called("setImage") =>
          /\ getImage(World)' = log'[1].arg
          /\ Len(log') = 1
          /\ UNCHANGED <<state, resolution, extent, imageListenerKeys_,
                         listeners, height, pending, nChanged, nLoadFn>>
      ]_vars

\* setImage(2) during a Loading episode started on handle 1
C8_Witness ==
    /\ LastCall("setImage")
    /\ log[1].arg = 2
    /\ log[1].state = LOADING
    /\ state = LOADING
    /\ image_ = 2
    /\ imageListenerKeys_ # NULL
    /\ imageListenerKeys_[1].target = 1

\* C9: a signal runs at most one handler; a handler runs only while Loading
\* and leaves the state Loaded or Error with both listeners deregistered; a
\* signal that arrives outside a Loading episode runs no handler, changes
\* nothing of the wrapper and emits no "changed".
C9_OneHandlerPerEpisode ==
    /\ [](Count(log, "handleImageLoad") + Count(log, "handleImageError") <= 1)
    /\ [](listeners # {} => state = LOADING)
    /\ [][/\ HandlerRan(log') =>
                /\ state = LOADING
                /\ state' \in {LOADED, ERROR}
                /\ listeners' = {}
                /\ imageListenerKeys_' = NULL
          /\ (Signalled /\ state # LOADING) =>
                /\ Len(log') = 1
                /\ UNCHANGED <<state, image_, resolution, imageListenerKeys_,
                               listeners, nChanged, nLoadFn>>
         ]_vars

\* a failure signal of handle 1 after the episode on handle 1 ended Loaded
C9_Witness ==
    /\ nOps = 3
    /\ LastCall("rasterError")
    /\ Len(log) = 1
    /\ log[1].arg = 1
    /\ log[1].state = LOADED
    /\ image_ = 1
    /\ state = LOADED

\* C10: when every fetch the load function starts is answered by a signal,
\* Loading always leads to Loaded or Error; and only a signal whose handler
\* runs ends a Loading episode: load() and setImage() leave it Loading with
\* its listeners in place.
C10_LoadingEndsOnlyBySignal ==
    /\ (state = LOADING) ~> (state \in {LOADED, ERROR})
    /\ [][/\ (state = LOADING /\ state' # LOADING) =>
                Signalled /\ HandlerRan(log')
          /\ (state = LOADING /\ (Called("load") \/ Called("setImage"))) =>
                /\ state' = LOADING
                /\ UNCHANGED <<imageListenerKeys_, listeners, pending>>
         ]_vars

\* the answer of the handle the episode started on ends the episode although
\* setImage() has replaced the handle meanwhile
C10_Witness ==
    /\ LastCall("rasterError")
    /\ log[1].state = LOADING
    /\ log[1].arg # image_
    /\ state = ERROR
    /\ pending = {}

\* C16: after every top-level call the listener keys are non-null, and then
\* exactly two, if and only if the state is Loading, and the listeners
\* registered on the raster handles are exactly those keys; unlistenImage_ is
\* never reached with null keys (no TypeError).
C16_KeysIffLoading ==
    /\ imageListenerKeys_ # NULL <=> state = LOADING
    /\ imageListenerKeys_ # NULL => Len(imageListenerKeys_) = 2
    /\ listeners = {imageListenerKeys_[i] : i \in DOMAIN imageListenerKeys_}
    /\ Count(log, "TypeError") = 0

\* a completion handler has just cleared the keys of an episode that a
\* retry had started
C16_Witness ==
    /\ HandlerRan(log)
    /\ Count(log, "unlisten") = 1
    /\ log[1].listening
    /\ imageListenerKeys_ = NULL
    /\ state = LOADED
    /\ nLoadFn = 2

\* C17 as stated: a Loading episode is ended by, and only by, a signal of the
\* handle load() registered the listeners on, and a resolution inferred on
\* success is the extent height divided by the pixel height of that
\* signalling handle.
C17_ResolutionFromSignallingHandle ==
    [][/\ (state = LOADING /\ state' # LOADING) =>
              Signalled /\ log'[1].arg = imageListenerKeys_[2].target
       /\ (/\ state = LOADING
           /\ Signalled
           /\ log'[1].arg = imageListenerKeys_[2].target) => state' # LOADING
       /\ (Count(log', "inferResolution") > 0 /\ height'[log'[1].arg] # 0) =>
              /\ resolution'.kind = "number"
              /\ resolution'.num * height'[log'[1].arg] =
                    resolution'.den * getHeight(extent)
      ]_vars

\* the state read at each entry of a log, followed by the state at its end
StatesOf(l, final) == [i \in 1..Len(l) |-> l[i].state] \o <<final>>

\* the number of state changes a log shows
Transitions(l, final) ==
    Cardinality({i \in DOMAIN l :
                    StatesOf(l, final)[i] # StatesOf(l, final)[i + 1]})

\* the number of entries into Loading a log shows
EntriesIntoLoading(l, final) ==
    Cardinality({i \in DOMAIN l :
                    /\ StatesOf(l, final)[i] # LOADING
                    /\ StatesOf(l, final)[i + 1] = LOADING})

\* C11: in every top-level call, re-entrant calls included, the number of
\* "changed" notifications equals the number of state changes, so a call
\* that leaves the state as it was at every moment emits none.
C11_OneChangedPerTransition ==
    [][nOps' = nOps + 1 =>
          /\ Count(log', "changed") = Transitions(log', state')
          /\ nChanged' = nChanged + Transitions(log', state')
      ]_vars

\* a failure handled with an observer that retries at once: two state
\* changes (Loading to Error to Loading) and two notifications in one call
C11_Witness ==
    /\ LastCall("rasterError")
    /\ log[1].state = LOADING
    /\ state = LOADING
    /\ Count(log, "changed") = 2
    /\ Transitions(log, state) = 2

\* C14: whenever the load function is invoked the state is Loading, the
\* "changed" of that transition has been emitted with no listener registered
\* yet, and the two listeners have been registered just before, on the
\* handle current at that moment; a signal the load function fires
\* synchronously runs its handler and ends the episode.
C14_LoadOrder ==
    /\ [](\A i \in DOMAIN log :
            /\ log[i].ev = "imageLoadFunction" =>
                  /\ log[i].state = LOADING
                  /\ log[i].listening
                  /\ log[i].registered = 2
                  /\ i >= 3
                  /\ log[i - 1].ev = "listen"
                  /\ \E j \in 2..(i - 2) :
                        /\ log[j].ev = "changed"
                        /\ log[j].state = LOADING
                        /\ ~log[j].listening
                        /\ log[j - 1].state \in {IDLE, ERROR}
                        /\ \A k \in (j + 1)..(i - 2) : log[k].ev = "observerLoad"
            /\ log[i].ev = "fireLoad" =>
                  /\ i < Len(log)
                  /\ log[i + 1].ev = "handleImageLoad"
                  /\ \E k \in (i + 2)..Len(log) :
                        log[k].ev = "changed" /\ log[k].state = LOADED
            /\ log[i].ev = "fireError" =>
                  /\ i < Len(log)
                  /\ log[i + 1].ev = "handleImageError"
                  /\ \E k \in (i + 2)..Len(log) :
                        log[k].ev = "changed" /\ log[k].state = ERROR)
    /\ [][(Called("load") /\ state' = LOADING /\ state # LOADING) =>
             imageListenerKeys_' = <<Key(image_, EventTypeERROR),
                                     Key(image_, EventTypeLOAD)>>
         ]_vars

\* a load() whose load function fired the success signal synchronously
C14_Witness ==
    /\ LastCall("load")
    /\ Count(log, "fireLoad") = 1
    /\ Count(log, "handleImageLoad") = 1
    /\ state = LOADED

\* C15: with observers that call load() from within "changed", at every
\* moment at most two listeners (one pair) are registered, a pair is only
\* registered when none is, clearing the keys leaves no listener behind, and
\* the load function is invoked once per entry into Loading.
C15_ReentrantLoadAbsorbed ==
    /\ \A i \in DOMAIN log :
          /\ log[i].registered <= 2
          /\ log[i].registered > 0 => log[i].listening
          /\ log[i].ev = "listen" =>
                i > 1 /\ ~log[i - 1].listening /\ log[i - 1].registered = 0
          /\ log[i].ev = "unlisten" => log[i].registered = 0
    /\ listeners = {imageListenerKeys_[i] : i \in DOMAIN imageListenerKeys_}
    /\ Cardinality(listeners) \in {0, 2}
    /\ Count(log, "imageLoadFunction") = EntriesIntoLoading(log, state)

\* the observer of the failure notification called load(): a new pair is
\* registered and the load function was invoked once in that call
C15_Witness ==
    /\ LastCall("rasterError")
    /\ Count(log, "observerLoad") = 2
    /\ Count(log, "imageLoadFunction") = 1
    /\ Count(log, "listen") = 1
    /\ state = LOADING
    /\ Cardinality(listeners) = 2

\* C12: the StyleComponent subscribes exactly once, at setup, and
\* unsubscribes exactly once, at teardown; after teardown, whenever it comes,
\* that one subscription is released and ngOnDestroy has not thrown.
C12_SubscribeOnceUnsubscribeOnce ==
    /\ nSubscribe <= 1
    /\ nUnsubscribe <= 1
    /\ phase = "destroyed" =>
          /\ "ngOnDestroy" \notin thrown
          /\ nUnsubscribe = 1
          /\ onChangedObservers = 0

\* C13: a property change of the directive makes exactly one setStyle call,
\* with a style built from the directive's fields after the change, while the
\* StyleComponent is set up and not torn down, and none before setup or after
\* teardown; setup itself makes one setStyle call from the fields of the
\* directive; nothing else calls setStyle.
C13_OnePushPerChange ==
    [][/\ nChanges' = nChanges + 1 =>
              IF phase = "initialized"
              THEN /\ nSetStyle' = nSetStyle + 1
                   /\ \A f \in IconInputs :
                         hostStyle'.image[f] = iconStyleDirective'[f]
              ELSE UNCHANGED <<nSetStyle, hostStyle>>
       /\ (phase = "constructed" /\ phase' = "initialized" /\ contentChild) =>
              /\ nSetStyle' = nSetStyle + 1
              /\ \A f \in IconInputs :
                    hostStyle'.image[f] = iconStyleDirective[f]
       /\ nSetStyle' # nSetStyle =>
              \/ nChanges' = nChanges + 1
              \/ phase = "constructed" /\ phase' = "initialized"
      ]_styleVars

\* two property changes and two setStyle calls (setup and one change); the
\* change made after teardown did not reach the host feature
C13_Witness ==
    /\ phase = "destroyed"
    /\ nChanges = 2
    /\ nSetStyle = 2
    /\ nUnsubscribe = 1
    /\ hostStyle # update(iconStyleDirective)

====
